---- MODULE Spec2Model ----
(***************************************************************************)
(* State-machine model of dxfTextToVector.py: one run of dxf_to_geojson,   *)
(* from reading the drawing to writing the GeoJSON file.                   *)
(*                                                                         *)
(* Conventions.                                                            *)
(*  - A string is a sequence of one-character strings, so that it can be   *)
(*    iterated like a Python str.                                          *)
(*  - Lengths are integers.  Heights are multiples of 4 and glyph widths   *)
(*    multiples of height/2, so that height*0.5 and total_width/2.0 are    *)
(*    exact (Half).                                                        *)
(*  - Points are <<x, y>>; rotations are multiples of 90 degrees, for      *)
(*    which the rotation matrix of line 109 is exact.                      *)
(*  - The entity's OCS is the default one and source_crs, when valid, is   *)
(*    the target CRS, so ocs.to_wcs and transformer.transform leave a      *)
(*    point's x and y unchanged; a feature keeps the resulting vertices.   *)
(***************************************************************************)
EXTENDS Integers, Sequences, FiniteSets, TLC

VARIABLES
    pc,                  \* position of the run
    exclude_strings,     \* argument of dxf_to_geojson
    font_prop,           \* result of get_font_properties
    transformer,         \* TRUE once pyproj.Transformer.from_crs succeeded
    entities_to_process, \* list(msp.query("TEXT MTEXT INSERT"))
    i,                   \* index of the entity of the loop of line 227
    subs,                \* entity.explode() of the INSERT being handled
    j,                   \* index of the sub-entity of the loop of line 231
    insert_mark,         \* len(all_features) when the INSERT's try block was entered
    cur,                 \* argument "entity" of process_entity
    ret,                 \* "features" of process_entity (line 206 / 208)
    lines,               \* entity.virtual_entities() of the MTEXT being handled
    k,                   \* index of the line of the loop of line 170
    mtext_features,      \* "all_features" local to transform_mtext_entity
    text_entity,         \* argument "entity" of transform_text_entity
    total_width,         \* local of transform_text_entity
    current_pos,         \* local of transform_text_entity
    features,            \* local of transform_text_entity
    idx,                 \* index of the character of the loops of lines 95 / 119
    TEXT_PATH_CACHE,     \* the module-level glyph cache
    resolver_calls,      \* number of TextPath constructions per cache key
    dispatched,          \* entities handed to transform_* by process_entity
    all_features,        \* the accumulated collection
    output,              \* the file at geojson_path
    log                  \* kinds of messages printed so far

vars == <<pc, exclude_strings, font_prop, transformer, entities_to_process, i,
          subs, j, insert_mark, cur, ret, lines, k, mtext_features,
          text_entity, total_width, current_pos, features, idx,
          TEXT_PATH_CACHE, resolver_calls, dispatched, all_features, output,
          log>>

----------------------------------------------------------------------------
(* Bounds of the model *)

MaxTextLen == 2
MaxEntities == 2
MaxSubs == 2
MaxLines == 2

(* Program constants *)

MinRingVertices == 3

----------------------------------------------------------------------------
(* Small numeric helpers *)

Half(x) == x \div 2

Cos(deg) == CASE deg = 0 -> 1 [] deg = 90 -> 0 [] deg = 180 -> -1 [] deg = 270 -> 0

Sin(deg) == CASE deg = 0 -> 0 [] deg = 90 -> 1 [] deg = 180 -> 0 [] deg = 270 -> -1

\* vec @ rot_matrix.T for the matrix of line 109
Rotate(v, deg) == <<v[1] * Cos(deg) - v[2] * Sin(deg), v[1] * Sin(deg) + v[2] * Cos(deg)>>

Add(p, q) == <<p[1] + q[1], p[2] + q[2]>>

\* str.isspace()
IsSpace(c) == c \in {" ", "\n"}

Repeat(x, n) == [m \in 1..n |-> x]

----------------------------------------------------------------------------
(* Fonts and the glyph resolver (matplotlib's TextPath) *)

Chars == {"A", " "}

\* What the font holds for one character: whether TextPath can be built,
\* the number of outline vertices, the width of the extents in units of
\* size/2, and whether get_extents() raises.
GoodGlyph == [ok |-> TRUE, nverts |-> 3, adv |-> 3, extents_raises |-> FALSE]

TwoVertexGlyph == [ok |-> TRUE, nverts |-> 2, adv |-> 3, extents_raises |-> FALSE]

NoExtentsGlyph == [ok |-> TRUE, nverts |-> 3, adv |-> 3, extents_raises |-> TRUE]

MissingGlyph == [ok |-> FALSE, nverts |-> 0, adv |-> 0, extents_raises |-> FALSE]

\* A blank glyph has no outline; its measured width is a or the font's business.
BlankGlyph(a) == [ok |-> TRUE, nverts |-> 0, adv |-> a, extents_raises |-> FALSE]

FontFile(a, sp) == [name |-> "UserFont", glyphs |-> [c \in Chars |-> IF c = " " THEN sp ELSE a]]

\* The fonts a --font path may hold.
UserFonts ==
    { FontFile(GoodGlyph, BlankGlyph(1)),
      FontFile(GoodGlyph, BlankGlyph(3)),
      FontFile(GoodGlyph, MissingGlyph),
      FontFile(MissingGlyph, BlankGlyph(1)),
      FontFile(TwoVertexGlyph, BlankGlyph(3)),
      FontFile(NoExtentsGlyph, BlankGlyph(1)) }

\* findfont(FontProperties(family="sans-serif"))
DefaultFont == [name |-> "DejaVu Sans", glyphs |-> [c \in Chars |-> IF c = " " THEN BlankGlyph(1) ELSE GoodGlyph]]

FontNames == {"UserFont", "DejaVu Sans"}

NoFont == [name |-> "", glyphs |-> [c \in Chars |-> MissingGlyph]]

get_font_properties(path_exists, file_font) == IF path_exists THEN file_font ELSE DefaultFont

\* None, as returned by get_char_path when TextPath raises
NoPath == [none |-> TRUE, vertices |-> <<>>, width |-> 0, extents_raises |-> FALSE]

\* The outline of a glyph at a size: the first nverts corners of a triangle.
Outline(g, size) == SubSeq(<<<<0, 0>>, <<g.adv * Half(size), 0>>, <<0, size>>>>, 1, g.nverts)

\* TextPath((0, 0), char, size=size, prop=font_prop), when it does not raise
TextPath(char, font, size) ==
    LET g == font.glyphs[char] IN
    [none |-> FALSE, vertices |-> Outline(g, size), width |-> g.adv * Half(size),
     extents_raises |-> g.extents_raises]

TextPathRaises(char, font) == ~font.glyphs[char].ok

\* bool(char_path): None is falsy, and so is a Path without vertices (Path.__len__)
Truthy(path) == ~path.none /\ Len(path.vertices) > 0

\* get_char_path without the lookup of lines 56-57
GetCharPath_NoLookup(char, font, size, cache, calls) ==
    LET cache_key == <<char, font.name, size>>
        counted == [calls EXCEPT ![cache_key] = @ + 1]
    IN  IF TextPathRaises(char, font)
        THEN [path |-> NoPath, cache |-> cache, calls |-> counted, failed |-> TRUE]
        ELSE [path |-> TextPath(char, font, size),
              cache |-> (cache_key :> TextPath(char, font, size)) @@ cache,
              calls |-> counted, failed |-> FALSE]

\* get_char_path: the path (or None), the cache and the resolver's call
\* counts after the call, and whether the warning of line 65 was printed.
GetCharPath(char, font, size, cache, calls) ==
    LET cache_key == <<char, font.name, size>>
        counted == [calls EXCEPT ![cache_key] = @ + 1]
    IN  IF cache_key \in DOMAIN cache
        THEN [path |-> cache[cache_key], cache |-> cache, calls |-> calls, failed |-> FALSE]
        ELSE IF TextPathRaises(char, font)
        THEN [path |-> NoPath, cache |-> cache, calls |-> counted, failed |-> TRUE]
        ELSE [path |-> TextPath(char, font, size),
              cache |-> (cache_key :> TextPath(char, font, size)) @@ cache,
              calls |-> counted, failed |-> FALSE]

\* char_path.get_extents().width with the fallback of lines 104-105 / 126-127
MeasuredWidth(path, height) == IF path.extents_raises THEN Half(height) ELSE path.width

\* ocs.to_wcs for the default OCS (extrusion (0, 0, 1))
OcsToWcs(p) == p

\* transformer.transform for source_crs = TARGET_CRS with always_xy=True
Transform(p) == p

----------------------------------------------------------------------------
(* Entities of the drawing *)

Heights == {4, 8}

Txt(s, h, r, at, d) ==
    [type |-> "TEXT", text |-> s, insert |-> at, height |-> h, rotation |-> r,
     layer |-> "TXT", doc |-> d]

\* An MTEXT and the TEXT entities its virtual_entities() yields, one per
\* line, each a line height below the previous one; d tells whether the
\* virtual entities are bound to a document.
Mtx(strs, d) ==
    [type |-> "MTEXT", layer |-> "TXT",
     virtual |-> [n \in 1..Len(strs) |-> Txt(strs[n], 4, 0, <<10, 40 - 8 * n>>, d)]]

\* An INSERT and the entities its explode() yields
Ins(es) == [type |-> "INSERT", layer |-> "BLK", block |-> es]

RECURSIVE JoinLines(_)
JoinLines(ts) ==
    IF Len(ts) = 0 THEN <<>>
    ELSE IF Len(ts) = 1 THEN ts[1].text
    ELSE ts[1].text \o <<"\n">> \o JoinLines(Tail(ts))

\* entity.plain_text() of an MTEXT: its lines joined by newlines
PlainText(e) == JoinLines(e.virtual)

AText(n) == Repeat("A", n)

TextStrings ==
    {AText(n) : n \in 1..MaxTextLen}
    \cup {AText(n - 1) \o <<" ">> : n \in 1..MaxTextLen}
    \cup {<<" ">> \o AText(n - 1) : n \in 2..MaxTextLen}

TopTexts ==
    {Txt(s, 4, 0, <<6, 2>>, TRUE) : s \in TextStrings}
    \cup {Txt(<<"A">>, 8, 90, <<6, 2>>, TRUE)}

MTexts ==
    {Mtx(Repeat(<<"A">>, n), TRUE) : n \in 1..MaxLines}
    \cup {Mtx(<<<<"A">>>>, FALSE)}

BlockText == Txt(<<"A">>, 4, 0, <<20, 0>>, TRUE)

NestedInsert == Ins(<<BlockText>>)

Inserts ==
    {Ins(Repeat(BlockText, n)) : n \in 0..MaxSubs}
    \cup {Ins(<<NestedInsert>> \o Repeat(BlockText, MaxSubs - 1))}

Queryable == TopTexts \cup MTexts \cup Inserts

\* What msp.query("TEXT MTEXT INSERT") may return
Drawings == UNION {[1..n -> Queryable] : n \in 0..MaxEntities}

ExcludeLists == {{}, {<<"A">>}}

ExplodeErrors == {"DXFStructureError", "RecursionError"}

ReadErrors == {"IOError", "DXFStructureError"}

NoEntity == [type |-> "NONE"]

NoFile == [exists |-> FALSE, collection |-> <<>>]

Keys == Chars \X FontNames \X Heights

----------------------------------------------------------------------------
(* The run *)

Init ==
    /\ pc = "readfile"
    /\ exclude_strings \in ExcludeLists
    /\ font_prop = NoFont
    /\ transformer = FALSE
    /\ entities_to_process = <<>>
    /\ i = 0
    /\ subs = <<>>
    /\ j = 0
    /\ insert_mark = 0
    /\ cur = NoEntity
    /\ ret = <<>>
    /\ lines = <<>>
    /\ k = 0
    /\ mtext_features = <<>>
    /\ text_entity = NoEntity
    /\ total_width = 0
    /\ current_pos = <<0, 0>>
    /\ features = <<>>
    /\ idx = 0
    /\ TEXT_PATH_CACHE = [key \in {} |-> NoPath]
    /\ resolver_calls = [key \in Keys |-> 0]
    /\ dispatched = <<>>
    /\ all_features = <<>>
    /\ output = NoFile
    /\ log = {}

walker_vars == <<entities_to_process, i, subs, j, insert_mark>>

entity_vars == <<cur, ret, lines, k, mtext_features>>

text_vars == <<text_entity, total_width, current_pos, features, idx>>

glyph_vars == <<TEXT_PATH_CACHE, resolver_calls>>

\* ezdxf.readfile and doc.modelspace(), lines 181-187
ReadFile ==
    /\ pc = "readfile"
    /\ \E status \in {"ok"} \cup ReadErrors :
          IF status = "ok"
          THEN pc' = "font" /\ log' = log
          ELSE pc' = "returned" /\ log' = log \cup {"dxf_error"}
    /\ UNCHANGED <<exclude_strings, font_prop, transformer, walker_vars, entity_vars,
                   text_vars, glyph_vars, dispatched, all_features, output>>

\* lines 189-191
LoadFont ==
    /\ pc = "font"
    /\ \E path_exists \in BOOLEAN, file_font \in UserFonts :
          /\ font_prop' = get_font_properties(path_exists, file_font)
          /\ log' = IF path_exists THEN log ELSE log \cup {"font_fallback"}
    /\ pc' = "crs"
    /\ UNCHANGED <<exclude_strings, transformer, walker_vars, entity_vars, text_vars,
                   glyph_vars, dispatched, all_features, output>>

\* a transformer set-up in which a CRSError does not end the run
MakeTransformer_NoReturn ==
    /\ pc = "crs"
    /\ \E crs_valid \in BOOLEAN :
          /\ transformer' = crs_valid
          /\ log' = IF crs_valid THEN log ELSE log \cup {"crs_error"}
    /\ pc' = "query"
    /\ UNCHANGED <<exclude_strings, font_prop, walker_vars, entity_vars, text_vars,
                   glyph_vars, dispatched, all_features, output>>

\* pyproj.Transformer.from_crs, lines 193-201
MakeTransformer ==
    /\ pc = "crs"
    /\ \E crs_valid \in BOOLEAN :
          IF crs_valid
          THEN transformer' = TRUE /\ pc' = "query" /\ log' = log
          ELSE transformer' = FALSE /\ pc' = "returned" /\ log' = log \cup {"crs_error"}
    /\ UNCHANGED <<exclude_strings, font_prop, walker_vars, entity_vars, text_vars,
                   glyph_vars, dispatched, all_features, output>>

\* msp.query and the early return on an empty result, lines 219-225
QueryEntities ==
    /\ pc = "query"
    /\ \E drawing \in Drawings :
          /\ entities_to_process' = drawing
          /\ IF Len(drawing) = 0
             THEN pc' = "returned" /\ i' = i /\ log' = log \cup {"no_entities"}
             ELSE pc' = "loop" /\ i' = 1 /\ log' = log
    /\ UNCHANGED <<exclude_strings, font_prop, transformer, subs, j, insert_mark,
                   entity_vars, text_vars, glyph_vars, dispatched, all_features, output>>

InInsert == i \in 1..Len(entities_to_process) /\ entities_to_process[i].type = "INSERT"

\* the head of the loop of line 227 and the branch of lines 228 / 235-237
NextEntity ==
    /\ pc = "loop"
    /\ i <= Len(entities_to_process)
    /\ IF entities_to_process[i].type = "INSERT"
       THEN /\ pc' = "explode"
            /\ insert_mark' = Len(all_features)
            /\ cur' = cur
       ELSE /\ pc' = "process_entity"
            /\ insert_mark' = insert_mark
            /\ cur' = entities_to_process[i]
    /\ UNCHANGED <<exclude_strings, font_prop, transformer, entities_to_process, i, subs, j,
                   ret, lines, k, mtext_features, text_vars, glyph_vars, dispatched,
                   all_features, output, log>>

\* entity.explode() returning the block's entities, line 231
Explode ==
    /\ pc = "explode"
    /\ subs' = entities_to_process[i].block
    /\ j' = 1
    /\ pc' = "subloop"
    /\ UNCHANGED <<exclude_strings, font_prop, transformer, entities_to_process, i,
                   insert_mark, entity_vars, text_vars, glyph_vars, dispatched,
                   all_features, output, log>>

\* entity.explode() raising, caught by lines 233-234
ExplodeRaises ==
    /\ pc = "explode"
    /\ \E err \in ExplodeErrors : log' = log \cup {"explode_warning"}
    /\ i' = i + 1
    /\ pc' = "loop"
    /\ UNCHANGED <<exclude_strings, font_prop, transformer, entities_to_process, subs, j,
                   insert_mark, entity_vars, text_vars, glyph_vars, dispatched,
                   all_features, output>>

\* the head of the loop of line 231 and the call of line 232
NextSub ==
    /\ pc = "subloop"
    /\ j <= Len(subs)
    /\ cur' = subs[j]
    /\ pc' = "process_entity"
    /\ UNCHANGED <<exclude_strings, font_prop, transformer, walker_vars, ret, lines, k,
                   mtext_features, text_vars, glyph_vars, dispatched, all_features,
                   output, log>>

\* an exception of line 233 raised inside the try block while sub-entity j
\* is fetched or processed, caught by lines 233-234
SubEntityRaises ==
    /\ pc = "subloop"
    /\ j <= Len(subs)
    /\ \E err \in ExplodeErrors : log' = log \cup {"explode_warning"}
    /\ subs' = <<>>
    /\ j' = 0
    /\ i' = i + 1
    /\ pc' = "loop"
    /\ UNCHANGED <<exclude_strings, font_prop, transformer, entities_to_process,
                   insert_mark, entity_vars, text_vars, glyph_vars, dispatched,
                   all_features, output>>

\* the loop of line 231 exhausted
EndExplode ==
    /\ pc = "subloop"
    /\ j > Len(subs)
    /\ subs' = <<>>
    /\ j' = 0
    /\ i' = i + 1
    /\ pc' = "loop"
    /\ UNCHANGED <<exclude_strings, font_prop, transformer, entities_to_process,
                   insert_mark, entity_vars, text_vars, glyph_vars, dispatched,
                   all_features, output, log>>

\* process_entity returning to line 232 or to line 237
ReturnFromProcessEntity ==
    /\ cur' = NoEntity
    /\ ret' = <<>>
    /\ IF InInsert
       THEN pc' = "subloop" /\ j' = j + 1 /\ i' = i
       ELSE pc' = "loop" /\ j' = j /\ i' = i + 1
    /\ UNCHANGED <<entities_to_process, subs, insert_mark>>

\* the dispatch of process_entity, lines 205-210
ProcessEntity ==
    /\ pc = "process_entity"
    /\ IF cur.type = "TEXT"
       THEN /\ pc' = "text_enter"
            /\ text_entity' = cur
            /\ dispatched' = Append(dispatched, cur)
            /\ UNCHANGED <<walker_vars, cur, ret>>
       ELSE IF cur.type = "MTEXT"
       THEN /\ pc' = "mtext_enter"
            /\ dispatched' = Append(dispatched, cur)
            /\ UNCHANGED <<walker_vars, cur, ret, text_entity>>
       ELSE /\ ReturnFromProcessEntity
            /\ UNCHANGED <<text_entity, dispatched>>
    /\ UNCHANGED <<exclude_strings, font_prop, transformer, lines, k, mtext_features,
                   total_width, current_pos, features, idx, glyph_vars, all_features,
                   output, log>>

----------------------------------------------------------------------------
(* transform_text_entity *)

\* lines 73-94: the exclusion test, the document test and the locals
EnterText ==
    /\ pc = "text_enter"
    /\ features' = <<>>
    /\ total_width' = 0
    /\ current_pos' = <<0, 0>>
    /\ IF text_entity.text \in exclude_strings
       THEN pc' = "text_return" /\ idx' = 0 /\ log' = log \cup {"skipped_excluded"}
       ELSE IF ~text_entity.doc
       THEN pc' = "text_return" /\ idx' = 0 /\ log' = log
       ELSE pc' = "measure" /\ idx' = 1 /\ log' = log
    /\ UNCHANGED <<exclude_strings, font_prop, transformer, walker_vars, entity_vars,
                   text_entity, glyph_vars, dispatched, all_features, output>>

\* one iteration of the measuring loop, lines 95-105
MeasureChar ==
    /\ pc = "measure"
    /\ idx <= Len(text_entity.text)
    /\ LET char == text_entity.text[idx]
           height == text_entity.height
           got == GetCharPath(char, font_prop, height, TEXT_PATH_CACHE, resolver_calls)
       IN  IF IsSpace(char)
           THEN /\ total_width' = total_width + Half(height)
                /\ UNCHANGED <<glyph_vars, log>>
           ELSE /\ TEXT_PATH_CACHE' = got.cache
                /\ resolver_calls' = got.calls
                /\ log' = IF got.failed THEN log \cup {"glyph_warning"} ELSE log
                /\ total_width' = IF Truthy(got.path)
                                  THEN total_width + MeasuredWidth(got.path, height)
                                  ELSE total_width
    /\ idx' = idx + 1
    /\ UNCHANGED <<pc, exclude_strings, font_prop, transformer, walker_vars, entity_vars,
                   text_entity, current_pos, features, dispatched, all_features, output>>

\* a start of the placement at the insertion point itself
StartPlacement_LeftAligned ==
    /\ pc = "measure"
    /\ idx > Len(text_entity.text)
    /\ current_pos' = text_entity.insert
    /\ idx' = 1
    /\ pc' = IF Len(text_entity.text) = 0 THEN "text_return" ELSE "place"
    /\ UNCHANGED <<exclude_strings, font_prop, transformer, walker_vars, entity_vars,
                   text_entity, total_width, features, glyph_vars, dispatched,
                   all_features, output, log>>

\* lines 107-116: the pen starts half the measured width before the insertion point
StartPlacement ==
    /\ pc = "measure"
    /\ idx > Len(text_entity.text)
    /\ LET offset_vector == <<-Half(total_width), 0>>
           rotated_offset == Rotate(offset_vector, text_entity.rotation)
       IN  current_pos' = Add(text_entity.insert, rotated_offset)
    /\ idx' = 1
    /\ pc' = IF Len(text_entity.text) = 0 THEN "text_return" ELSE "place"
    /\ UNCHANGED <<exclude_strings, font_prop, transformer, walker_vars, entity_vars,
                   text_entity, total_width, features, glyph_vars, dispatched,
                   all_features, output, log>>

\* an emission test that accepts a two-vertex outline
EmitsFeature_TwoVertices(char, transformed_verts) ==
    ~IsSpace(char) /\ Len(transformed_verts) >= MinRingVertices - 1

\* lines 129 and 139: which characters yield a feature
EmitsFeature(char, transformed_verts) ==
    ~IsSpace(char) /\ Len(transformed_verts) >= MinRingVertices

\* lines 130-137
TransformedVerts(path, pos, rotation) ==
    [n \in 1..Len(path.vertices) |->
        Transform(OcsToWcs(Add(pos, Rotate(path.vertices[n], rotation))))]

\* lines 141-147
MakeFeature(entity, char, font_name, transformed_verts) ==
    [text |-> entity.text, char |-> char, layer |-> entity.layer, font |-> font_name,
     insert |-> entity.insert, verts |-> transformed_verts]

\* one iteration of the placement loop, lines 119-152
PlaceChar ==
    /\ pc = "place"
    /\ idx <= Len(text_entity.text)
    /\ LET char == text_entity.text[idx]
           height == text_entity.height
           rotation == text_entity.rotation
           got == GetCharPath(char, font_prop, height, TEXT_PATH_CACHE, resolver_calls)
           char_width == MeasuredWidth(got.path, height)
           transformed_verts == TransformedVerts(got.path, current_pos, rotation)
       IN  /\ TEXT_PATH_CACHE' = got.cache
           /\ resolver_calls' = got.calls
           /\ log' = IF got.failed THEN log \cup {"glyph_warning"} ELSE log
           /\ IF got.path.none
              THEN UNCHANGED <<features, current_pos>>
              ELSE /\ features' =
                        IF EmitsFeature(char, transformed_verts)
                        THEN Append(features,
                                    MakeFeature(text_entity, char, font_prop.name,
                                                transformed_verts))
                        ELSE features
                   /\ current_pos' = Add(current_pos, Rotate(<<char_width, 0>>, rotation))
    /\ pc' = IF idx = Len(text_entity.text) THEN "text_return" ELSE "place"
    /\ idx' = idx + 1
    /\ UNCHANGED <<exclude_strings, font_prop, transformer, walker_vars, entity_vars,
                   text_entity, total_width, dispatched, all_features, output>>

\* the return of lines 77, 82 or 154, to line 172 or to line 206
ReturnText ==
    /\ pc = "text_return"
    /\ IF cur.type = "MTEXT"
       THEN /\ mtext_features' = mtext_features \o features
            /\ k' = k + 1
            /\ pc' = "mtext_loop"
            /\ ret' = ret
       ELSE /\ ret' = features
            /\ pc' = "collect"
            /\ UNCHANGED <<mtext_features, k>>
    /\ text_entity' = NoEntity
    /\ total_width' = 0
    /\ current_pos' = <<0, 0>>
    /\ features' = <<>>
    /\ idx' = 0
    /\ UNCHANGED <<exclude_strings, font_prop, transformer, walker_vars, cur, lines,
                   glyph_vars, dispatched, all_features, output, log>>

----------------------------------------------------------------------------
(* transform_mtext_entity *)

\* lines 162-170: the exclusion test on the plain text, then the lines
EnterMText ==
    /\ pc = "mtext_enter"
    /\ mtext_features' = <<>>
    /\ IF PlainText(cur) \in exclude_strings
       THEN /\ pc' = "collect"
            /\ ret' = <<>>
            /\ log' = log \cup {"skipped_excluded"}
            /\ UNCHANGED <<lines, k>>
       ELSE /\ pc' = "mtext_loop"
            /\ lines' = cur.virtual
            /\ k' = 1
            /\ UNCHANGED <<ret, log>>
    /\ UNCHANGED <<exclude_strings, font_prop, transformer, walker_vars, cur, text_vars,
                   glyph_vars, dispatched, all_features, output>>

\* the head of the loop of line 170 and the call of line 172
NextLine ==
    /\ pc = "mtext_loop"
    /\ k <= Len(lines)
    /\ text_entity' = lines[k]
    /\ pc' = "text_enter"
    /\ UNCHANGED <<exclude_strings, font_prop, transformer, walker_vars, entity_vars,
                   total_width, current_pos, features, idx, glyph_vars, dispatched,
                   all_features, output, log>>

\* line 174, returning to line 208
ReturnMText ==
    /\ pc = "mtext_loop"
    /\ k > Len(lines)
    /\ ret' = mtext_features
    /\ mtext_features' = <<>>
    /\ lines' = <<>>
    /\ k' = 0
    /\ pc' = "collect"
    /\ UNCHANGED <<exclude_strings, font_prop, transformer, walker_vars, cur, text_vars,
                   glyph_vars, dispatched, all_features, output, log>>

----------------------------------------------------------------------------
(* The rest of process_entity, and the output *)

\* lines 212-215, and the return to the loop
Collect ==
    /\ pc = "collect"
    /\ all_features' = all_features \o ret
    /\ log' = IF Len(ret) > 0 THEN log \cup {"processed"} ELSE log
    /\ ReturnFromProcessEntity
    /\ UNCHANGED <<exclude_strings, font_prop, transformer, lines, k, mtext_features,
                   text_vars, glyph_vars, dispatched, output>>

\* an output step that writes no file for an empty collection
WriteOutput_SkipEmpty ==
    /\ pc = "loop"
    /\ i > Len(entities_to_process)
    /\ \E write_ok \in BOOLEAN :
          /\ output' = IF write_ok /\ Len(all_features) > 0
                       THEN [exists |-> TRUE, collection |-> all_features]
                       ELSE output
          /\ log' = log \cup (IF Len(all_features) = 0 THEN {"empty_warning"} ELSE {})
                        \cup (IF write_ok THEN {"written"} ELSE {"write_error"})
    /\ pc' = "done"
    /\ UNCHANGED <<exclude_strings, font_prop, transformer, walker_vars, entity_vars,
                   text_vars, glyph_vars, dispatched, all_features>>

\* lines 239-251, once the loop of line 227 is exhausted
WriteOutput ==
    /\ pc = "loop"
    /\ i > Len(entities_to_process)
    /\ \E write_ok \in BOOLEAN :
          /\ output' = IF write_ok
                       THEN [exists |-> TRUE, collection |-> all_features]
                       ELSE output
          /\ log' = log \cup (IF Len(all_features) = 0 THEN {"empty_warning"} ELSE {})
                        \cup (IF write_ok THEN {"written"} ELSE {"write_error"})
    /\ pc' = "done"
    /\ UNCHANGED <<exclude_strings, font_prop, transformer, walker_vars, entity_vars,
                   text_vars, glyph_vars, dispatched, all_features>>

Next ==
    \/ ReadFile
    \/ LoadFont
    \/ MakeTransformer
    \/ QueryEntities
    \/ NextEntity
    \/ Explode
    \/ ExplodeRaises
    \/ NextSub
    \/ SubEntityRaises
    \/ EndExplode
    \/ ProcessEntity
    \/ EnterText
    \/ MeasureChar
    \/ StartPlacement
    \/ PlaceChar
    \/ ReturnText
    \/ EnterMText
    \/ NextLine
    \/ ReturnMText
    \/ Collect
    \/ WriteOutput

Spec == Init /\ [][Next]_vars

----------------------------------------------------------------------------
(* Properties *)

\* the font resolves the character to an outline that can become a polygon
Drawable(c) ==
    ~IsSpace(c) /\ font_prop.glyphs[c].ok /\ font_prop.glyphs[c].nverts >= MinRingVertices

HasDrawable(s) == \E n \in 1..Len(s) : Drawable(s[n])

Content(e) == IF e.type = "MTEXT" THEN PlainText(e) ELSE e.text

Runs(e) == IF e.type = "MTEXT" THEN e.virtual ELSE <<e>>

\* C1 (exclusion correctness): when process_entity has the features of a
\* TEXT or MTEXT entity bound to a document, they are none if the entity's
\* content is an excluded string, and at least one if the content is not
\* excluded and some non-whitespace character of it resolves to an outline
\* of at least 3 vertices -- also for an MTEXT whose lines, but not whose
\* whole content, are excluded.
C1_ExclusionCorrectness ==
    (pc = "collect" /\ \A n \in 1..Len(Runs(cur)) : Runs(cur)[n].doc) =>
        /\ Content(cur) \in exclude_strings => Len(ret) = 0
        /\ (/\ Content(cur) \notin exclude_strings
            /\ \E n \in 1..Len(Runs(cur)) : HasDrawable(Runs(cur)[n].text))
           => Len(ret) >= 1

Unprocessed == i = 0 /\ Len(dispatched) = 0 /\ Len(all_features) = 0 /\ ~output.exists

\* C2 (fatal errors abort at setup): once the drawing could not be read,
\* the font could not be loaded or the source CRS was invalid, the run is
\* still in setup or has returned: no entity is ever walked, nothing is
\* written.
C2_FatalErrorsAbort ==
    (log \cap {"dxf_error", "font_fallback", "crs_error"} # {}) =>
        /\ pc \in {"font", "crs", "query", "returned"}
        /\ Unprocessed

\* C2 as amended: an unreadable drawing or an invalid source CRS ends the
\* run at once, with no entity walked and nothing written; a font path that
\* does not exist ends nothing: the run goes on with the default font.
C2_ReadAndCrsErrorsAbort ==
    /\ ("dxf_error" \in log \/ "crs_error" \in log) => (pc = "returned" /\ Unprocessed)
    /\ "dxf_error" \in log => (font_prop = NoFont /\ ~transformer)
    /\ "font_fallback" \in log => font_prop = DefaultFont

C2_Witness == pc = "returned" /\ "crs_error" \in log /\ "font_fallback" \in log

\* C3 (an output is always written): a run whose setup succeeded and that
\* has ended has written the collection to the output path, also when the
\* drawing holds no TEXT, MTEXT or INSERT entity.
C3_AlwaysWrites ==
    (transformer /\ pc \in {"returned", "done"}) =>
        (output.exists /\ output.collection = all_features)

\* C3 as amended: a run whose setup succeeded ends either by the early
\* return, exactly when the query found no entity, with a message and no
\* file, or after the output step, which warns of an empty collection and
\* writes the collection, empty or not, unless the write raises IOError.
C3_WritesUnlessNoEntities ==
    /\ pc = "done" =>
          /\ transformer /\ Len(entities_to_process) > 0
          /\ Len(all_features) = 0 => "empty_warning" \in log
          /\ \/ "written" \in log /\ output = [exists |-> TRUE, collection |-> all_features]
             \/ "write_error" \in log /\ "written" \notin log /\ output = NoFile
    /\ (pc = "returned" /\ transformer) =>
          /\ Len(entities_to_process) = 0
          /\ "no_entities" \in log
          /\ output = NoFile

C3_Witness ==
    /\ pc = "done"
    /\ Len(dispatched) > 0
    /\ Len(all_features) = 0
    /\ output = [exists |-> TRUE, collection |-> <<>>]
    /\ "empty_warning" \in log

\* the advance the pen is to make for the character at idx
ClaimedAdvance ==
    LET char == text_entity.text[idx]
        g == font_prop.glyphs[char]
        height == text_entity.height
    IN  IF IsSpace(char) \/ ~g.ok \/ g.extents_raises
        THEN Half(height)
        ELSE g.adv * Half(height)

\* C4 (pen advance): every iteration of the placement loop moves the pen
\* along the run's x axis, by height/2 for a whitespace character, by the
\* glyph's measured width (height/2 if measuring fails) for a resolved
\* character, and by height/2 for a character whose glyph does not resolve.
C4_PenAdvance ==
    [][(pc = "place" /\ idx' = idx + 1) =>
          current_pos' = Add(current_pos, Rotate(<<ClaimedAdvance, 0>>, text_entity.rotation))]_vars

RECURSIVE TextsDepthFirst(_)
TextsDepthFirst(es) ==
    IF Len(es) = 0 THEN <<>>
    ELSE (IF es[1].type = "INSERT" THEN TextsDepthFirst(es[1].block)
          ELSE IF es[1].type \in {"TEXT", "MTEXT"} THEN <<es[1]>>
          ELSE <<>>) \o TextsDepthFirst(Tail(es))

\* C5 (traversal): when a run in which no explosion failed is done, the
\* TEXT and MTEXT entities handed to the transforms are exactly those of
\* the drawing with every INSERT expanded recursively, each once, in
\* depth-first order.
C5_Traversal ==
    (pc = "done" /\ "explode_warning" \notin log) =>
        dispatched = TextsDepthFirst(entities_to_process)

\* C6 (explosion failure): a step in which the exception of an INSERT is
\* caught leaves the collection as it was when the INSERT was reached, and
\* the walker goes on with the next entity.
C6_FailedInsertContributesNothing ==
    [][(pc \in {"explode", "subloop"} /\ pc' = "loop" /\ "explode_warning" \in log'
        /\ (pc = "subloop" => j <= Len(subs))) =>
          /\ Len(all_features') = insert_mark
          /\ i' = i + 1]_vars

\* C7 (centering): when the placement of a TEXT run of rotation 0 ends,
\* the midpoint between the first pen position, half the measured width
\* before the insertion point, and the last pen position is the insertion
\* point's x coordinate.
C7_Centred ==
    (/\ pc = "text_return"
     /\ idx = Len(text_entity.text) + 1
     /\ cur.type = "TEXT"
     /\ text_entity.rotation = 0) =>
        (text_entity.insert[1] - Half(total_width)) + current_pos[1] = 2 * text_entity.insert[1]

InMTextRun == cur.type = "MTEXT" /\ pc \in {"text_enter", "measure", "place", "text_return"}

\* C8 (MTEXT lines are left-aligned): the run of an MTEXT line is that
\* line alone, and its placement starts with the pen at the line's own
\* insertion point.
C8_LinesLeftAligned ==
    InMTextRun =>
        /\ text_entity = lines[k]
        /\ (pc = "place" /\ idx = 1) => current_pos = text_entity.insert

\* C8 as amended: the run of an MTEXT line is that line alone, and its
\* placement starts with the pen half the line's measured width before the
\* line's own insertion point, as for a TEXT entity.
C8_LinesCentred ==
    InMTextRun =>
        /\ text_entity = lines[k]
        /\ (pc = "place" /\ idx = 1) =>
              current_pos = Add(text_entity.insert,
                                Rotate(<<-Half(total_width), 0>>, text_entity.rotation))

C8_Witness ==
    /\ InMTextRun
    /\ pc = "place"
    /\ idx = 1
    /\ k = 2
    /\ total_width > 0
    /\ Len(mtext_features) > 0

ValidFeature(f) ==
    /\ Len(f.verts) >= MinRingVertices
    /\ ~IsSpace(f.char)
    /\ \E n \in 1..Len(f.text) : f.text[n] = f.char
    /\ font_prop.glyphs[f.char].ok

AllValid(fs) == \A n \in 1..Len(fs) : ValidFeature(fs[n])

\* C9 (feature validity): every feature, accumulated or on its way to the
\* collection, has at least 3 vertices and is of one non-whitespace
\* character of its text whose glyph resolved; and a run that met a glyph
\* failure did not return early.
C9_FeaturesValid ==
    /\ AllValid(all_features)
    /\ AllValid(ret)
    /\ AllValid(mtext_features)
    /\ AllValid(features)
    /\ "glyph_warning" \in log => pc # "returned"

C9_Witness ==
    /\ pc = "done"
    /\ "glyph_warning" \in log
    /\ Len(all_features) > 0
    /\ \E n \in 1..Len(dispatched) :
          /\ dispatched[n].type = "TEXT"
          /\ \E m \in 1..Len(dispatched[n].text) : IsSpace(dispatched[n].text[m])

\* C10 (glyph cache): the resolver is invoked at most once per key, also
\* for a key whose resolution fails.
C10_ResolvedAtMostOnce == \A key \in Keys : resolver_calls[key] <= 1

\* C10 as amended: the resolver is invoked at most once per key whose
\* resolution succeeds; such a key stays in the cache from then on, with
\* the path the resolver returned; a key whose resolution fails is never
\* cached and is resolved anew at every request.
C10_SuccessesResolvedOnce ==
    \A key \in Keys :
        /\ key \in DOMAIN TEXT_PATH_CACHE =>
              /\ resolver_calls[key] = 1
              /\ key[2] = font_prop.name
              /\ TEXT_PATH_CACHE[key] = TextPath(key[1], font_prop, key[3])
        /\ (resolver_calls[key] >= 1 /\ key \notin DOMAIN TEXT_PATH_CACHE) =>
              TextPathRaises(key[1], font_prop)

C10_Witness ==
    /\ pc = "done"
    /\ \E key \in DOMAIN TEXT_PATH_CACHE : key[1] = "A"
    /\ \E key \in Keys : resolver_calls[key] >= 2
    /\ Len(all_features) >= 2

====
